---- MODULE Spec2Model ----
(***************************************************************************)
(* crunchy-cli-core/src/lib.rs: one invocation of `main`.                  *)
(*                                                                         *)
(* The primary task walks through verbosity check, command dispatch,       *)
(* pre-check, create_ctx (two clients, crunchyroll_session), ctrl-c        *)
(* handler installation and the command's execute.  The ctrl-c handler is a *)
(* closure that the ctrlc crate runs on its own thread, so its steps       *)
(* interleave with the primary task once it is installed.                  *)
(*                                                                         *)
(* Text is modelled as a sequence of symbols.  A symbol stands for a       *)
(* literal piece of text: ":" is the separator, "refresh_token", "etp_rt", *)
(* "invalid_grant" and ".crunchy-cli_" are the literals the code compares  *)
(* against, every other symbol is an arbitrary character.                  *)
(***************************************************************************)
EXTENDS Integers, Sequences, FiniteSets, TLC

\* ---------------------------------------------------------------- bounds
MaxCredLen == 2
MaxSessLen == 2

\* ---------------------------------------------------------------- text
None == "none"

StrUpTo(A, n) == UNION {[1..k -> A] : k \in 0..n}

SepPositions(s) == {i \in 1..Len(s) : s[i] = ":"}

Min(S) == CHOOSE x \in S : \A y \in S : x <= y

\* str::split_once(':'): split at the FIRST separator; found = FALSE is None
SplitOnce(s) ==
    IF SepPositions(s) = {} THEN [found |-> FALSE, left |-> <<>>, right |-> <<>>]
    ELSE LET i == Min(SepPositions(s))
         IN  [found |-> TRUE, left |-> SubSeq(s, 1, i - 1),
              right |-> SubSeq(s, i + 1, Len(s))]

\* str::starts_with(p) for a one-symbol literal p
StartsWith(s, p) == Len(s) > 0 /\ s[1] = p

\* ---------------------------------------------------------------- domains
CredAlphabet == {"a", ":"}
SessAlphabet == {"refresh_token", "etp_rt", "x", ":"}

\* supported_langs, in the order of the vec
SupportedLangsVec ==
    <<"zh-CN", "zh-HK", "zh-TW", "en-US", "ar-ME", "de-DE", "es-ES",
      "es-419", "fr-FR", "it-IT", "pt-BR", "pt-PT", "ru-RU">>
SupportedLangs == {SupportedLangsVec[i] : i \in DOMAIN SupportedLangsVec}
\* Locale values a user or the system can supply; ja-JP is a Locale that
\* is not in supported_langs
LangInputs == {"de-DE", "ja-JP"}
SystemLocales == {"en-US", "fr-FR", "ja-JP"}

Commands ==
    {[name |-> "Archive", yes |-> y, remove |-> FALSE] : y \in BOOLEAN} \cup
    {[name |-> "Download", yes |-> y, remove |-> FALSE] : y \in BOOLEAN} \cup
    {[name |-> "Login", yes |-> FALSE, remove |-> r] : r \in BOOLEAN} \cup
    {[name |-> "Search", yes |-> FALSE, remove |-> FALSE]}

\* The per-user session file: login::session_file_path() may be None, the
\* file may not exist, reading it may fail, or it has some content.
SessionFiles(n) ==
    {[path |-> FALSE, exists |-> FALSE, readable |-> FALSE, content |-> <<>>],
     [path |-> TRUE, exists |-> FALSE, readable |-> FALSE, content |-> <<>>],
     [path |-> TRUE, exists |-> TRUE, readable |-> FALSE, content |-> <<>>]} \cup
    {[path |-> TRUE, exists |-> TRUE, readable |-> TRUE, content |-> c] :
        c \in StrUpTo(SessAlphabet, n)}

\* Errors of the remote client library (crunchyroll_rs::error::Error)
RemoteErrors ==
    {[kind |-> "Request", message |-> <<"invalid_grant">>],
     [kind |-> "Request", message |-> <<"invalid_grant", "x">>],
     [kind |-> "Request", message |-> <<"x", "invalid_grant">>],
     [kind |-> "Block", message |-> <<"invalid_grant">>],
     [kind |-> "Block", message |-> <<"x">>],
     [kind |-> "Decode", message |-> <<"x">>]}

\* Temp directory entries.  The symbol ".crunchy-cli_" is the private prefix.
\* utf8 = FALSE: the file name is not valid UTF-8 (to_str() gives None).
TempEntries ==
    {[name |-> <<".crunchy-cli_", "x">>, kind |-> "file", utf8 |-> TRUE],
     [name |-> <<".crunchy-cli_", "y">>, kind |-> "dir", utf8 |-> TRUE],
     [name |-> <<"x", ".crunchy-cli_">>, kind |-> "file", utf8 |-> TRUE],
     [name |-> <<".crunchy-cli_", "z">>, kind |-> "file", utf8 |-> FALSE]}

\* Option<String> / Option<u32> values
NoText == [some |-> FALSE, val |-> <<>>]
SomeText(t) == [some |-> TRUE, val |-> t]
NoSpeed == [some |-> FALSE, val |-> 0]
SpeedLimits == {NoSpeed, [some |-> TRUE, val |-> 1]}

NoRemote == [kind |-> "none", message |-> <<>>]
NoErr == [kind |-> "none", content |-> <<>>, remote |-> NoRemote]
Err(k) == [kind |-> k, content |-> <<>>, remote |-> NoRemote]
ErrWith(k, c) == [kind |-> k, content |-> c, remote |-> NoRemote]
\* a remote error passed on unchanged (`?`, Err(e.into()))
RemoteErr(e) == [kind |-> "Remote", content |-> <<>>, remote |-> e]

NoCtx == [built |-> FALSE, owner |-> "none", crunchy |-> "none", client |-> "none",
          rate_limiter |-> {}]

\* ---------------------------------------------------------------- state
VARIABLES
    cli,            \* the parsed Cli (struct Cli)
    sessionFile,    \* the stored-session file on disk
    tempDir,        \* entries of env::temp_dir()
    pc,             \* position of the primary task in main
    exit,           \* "running", or how the process ended
    logLevel,       \* LevelFilter of the initialised logger
    errorLog,       \* lines written with error!
    stderrLines,    \* lines written with eprintln!
    warned,         \* warn! about the unsupported system locale
    preCheck,       \* "none" | "ok" | "err": result of executor.pre_check()
    clients,        \* reqwest clients built so far
    limiters,       \* RateLimiterService instances built so far
    locale,         \* locale given to the builder
    authState,      \* state of the session state machine
    attempt,        \* the attempt state that was entered
    sessionRead,    \* fs::read_to_string was called on the session file
    loginCalls,     \* login calls issued to the remote
    remoteReply,    \* what the remote answered to the login call
    sessionErr,     \* error crunchyroll_session returned
    ctx,            \* the Context
    handlerInstalls,\* successful ctrlc::set_handler calls
    executeCalls,   \* calls of the selected command's execute
    cursorVisible,  \* terminal cursor state
    interrupt,      \* "none" | "default" | "handled": how an interrupt was taken
    hpc,            \* position of the ctrl-c handler
    readDir,        \* "none" | "ok" | "err": result of fs::read_dir
    tempAtInt,      \* temp directory when the handler started
    todo,           \* entries the handler's loop still has to visit
    visited,        \* what the handler did with each entry it visited
    cursorShown,    \* the handler called show_cursor
    given,          \* the configuration and session file the run started with
    sysLocale,      \* what system_locale() returned, once it was called
    middleware,     \* rate limiters bound to the session builder
    executeResult,  \* what the command's execute returned
    used            \* bytes each rate limiter let through in the current second

vars == <<cli, sessionFile, tempDir, pc, exit, logLevel, errorLog, stderrLines,
          warned, preCheck, clients, limiters, locale, authState, attempt,
          sessionRead, loginCalls, sessionErr, ctx, handlerInstalls,
          executeCalls, cursorVisible, interrupt, hpc, tempAtInt, todo, visited,
          remoteReply, cursorShown, readDir, given, sysLocale, middleware,
          executeResult, used>>

cfgVars == <<cli, sessionFile, given>>
mainVars == <<pc, logLevel, errorLog, stderrLines, warned, preCheck, clients,
              limiters, locale, authState, attempt, sessionRead, loginCalls,
              sessionErr, ctx, handlerInstalls, executeCalls, remoteReply,
              sysLocale, middleware, executeResult, used>>
handlerVars == <<interrupt, hpc, tempAtInt, todo, visited, cursorShown, readDir>>

Running == exit = "running"

\* Everything but the configuration and the environment, after Cli::parse_from
InitRun ==
    /\ pc = "start"
    /\ exit = "running"
    /\ logLevel = "unset"
    /\ errorLog = <<>>
    /\ stderrLines = 0
    /\ warned = FALSE
    /\ preCheck = "none"
    /\ clients = {}
    /\ limiters = {}
    /\ locale = None
    /\ authState = "Idle"
    /\ attempt = "none"
    /\ sessionRead = FALSE
    /\ loginCalls = <<>>
    /\ remoteReply = NoRemote
    /\ sessionErr = NoErr
    /\ ctx = NoCtx
    /\ handlerInstalls = 0
    /\ executeCalls = 0
    /\ cursorVisible = TRUE
    /\ interrupt = "none"
    /\ hpc = "idle"
    /\ tempAtInt = {}
    /\ todo = {}
    /\ visited = {}
    /\ cursorShown = FALSE
    /\ readDir = "none"
    /\ given = [cli |-> cli, sessionFile |-> sessionFile]
    /\ sysLocale = None
    /\ middleware = {}
    /\ executeResult = NoErr
    /\ used = [c \in {"api", "transfer"} |-> 0]

Clis(creds) ==
    [verbose : BOOLEAN, quiet : BOOLEAN, lang : {None} \cup LangInputs,
     credentials : creds, anonymous : BOOLEAN, speed_limit : SpeedLimits,
     command : Commands]

\* ---------------------------------------------------------------- helpers
\* mutant: the error is logged where it arises and again at the top level
LogAndExitTwice(src, e) ==
    /\ errorLog' = Append(Append(errorLog, [src |-> src, err |-> e]),
                          [src |-> src, err |-> e])
    /\ exit' = "1"
    /\ pc' = "end"

\* std::process::exit(1) after one error! line
LogAndExit(src, e) ==
    /\ errorLog' = Append(errorLog, [src |-> src, err |-> e])
    /\ exit' = "1"
    /\ pc' = "end"

\* mutant: the error of create_ctx is logged but main goes on
SessionFailContinue(e) ==
    /\ authState' = "Failed"
    /\ sessionErr' = e
    /\ errorLog' = Append(errorLog, [src |-> "create_ctx", err |-> e])
    /\ exit' = exit
    /\ pc' = "assemble"

\* crunchyroll_session bails with e; create_ctx passes it on with `?`;
\* main logs it and exits with status 1
SessionFail(e) ==
    /\ authState' = "Failed"
    /\ sessionErr' = e
    /\ LogAndExit("create_ctx", e)

\* mutant: the anonymous flag is not counted
LoginMethodsCountCredsOnly(c) == IF c.credentials.some THEN 1 ELSE 0

\* root_login_methods_count
LoginMethodsCount(c) ==
    (IF c.credentials.some THEN 1 ELSE 0) + (IF c.anonymous THEN 1 ELSE 0)

\* ---------------------------------------------------------------- main
\* verbose and quiet together: eprintln! and exit(1)
VerbosityConflict ==
    /\ Running /\ pc = "start"
    /\ cli.verbose /\ cli.quiet
    /\ stderrLines' = stderrLines + 1
    /\ exit' = "1"
    /\ pc' = "end"
    /\ UNCHANGED <<cfgVars, tempDir, logLevel, errorLog, warned, preCheck, clients,
                   limiters, locale, authState, attempt, sessionRead, loginCalls,
                   sessionErr, ctx, handlerInstalls, executeCalls, cursorVisible,
                   handlerVars,
                   remoteReply,
                   sysLocale, middleware, executeResult, used>>

LevelFor(c) == IF c.verbose THEN "Debug" ELSE IF c.quiet THEN "Error" ELSE "Info"

\* CliLogger::init(..).unwrap(): a failed initialisation panics
InitLogger ==
    /\ Running /\ pc = "start"
    /\ ~(cli.verbose /\ cli.quiet)
    /\ \E ok \in BOOLEAN :
          IF ok THEN /\ logLevel' = LevelFor(cli)
                     /\ pc' = "dispatch"
                     /\ exit' = exit
                ELSE /\ logLevel' = logLevel
                     /\ pc' = "end"
                     /\ exit' = "panic"
    /\ UNCHANGED <<cfgVars, tempDir, errorLog, stderrLines, warned, preCheck,
                   clients, limiters, locale, authState, attempt, sessionRead,
                   loginCalls, sessionErr, ctx, handlerInstalls, executeCalls,
                   cursorVisible, handlerVars,
                   remoteReply,
                   sysLocale, middleware, executeResult, used>>

\* mutant: only the archive arm forces yes
YesAfterDispatchArchiveOnly(c) ==
    IF c.command.name = "Archive" /\ c.quiet THEN TRUE ELSE c.command.yes

\* archive.yes / download.yes after the match arm ran
YesAfterDispatch(c) ==
    IF c.command.name \in {"Archive", "Download"} /\ c.quiet THEN TRUE
    ELSE c.command.yes

\* match &mut cli.command, up to the call of pre_check_executor
Dispatch ==
    /\ Running /\ pc = "dispatch"
    /\ ~(cli.command.name = "Login" /\ cli.command.remove)
    /\ cli' = [cli EXCEPT !.command.yes = YesAfterDispatch(cli)]
    /\ pc' = "pre_check"
    /\ UNCHANGED <<sessionFile, tempDir, exit, logLevel, errorLog, stderrLines,
                   warned, preCheck, clients, limiters, locale, authState, attempt,
                   sessionRead, loginCalls, sessionErr, ctx, handlerInstalls,
                   executeCalls, cursorVisible, handlerVars,
                   remoteReply,
                   given, sysLocale, middleware, executeResult, used>>

\* mutant: the return after the removal is missing
LoginRemoveNoReturn ==
    /\ Running /\ pc = "dispatch"
    /\ cli.command.name = "Login" /\ cli.command.remove
    /\ \E removed \in BOOLEAN :
          sessionFile' =
              IF sessionFile.path /\ sessionFile.exists /\ removed
              THEN [path |-> TRUE, exists |-> FALSE, readable |-> FALSE,
                    content |-> <<>>]
              ELSE sessionFile
    /\ pc' = "pre_check"
    /\ exit' = exit
    /\ UNCHANGED <<cli, tempDir, logLevel, errorLog, stderrLines, warned, preCheck,
                   clients, limiters, locale, authState, attempt, sessionRead,
                   loginCalls, sessionErr, ctx, handlerInstalls, executeCalls,
                   cursorVisible, handlerVars,
                   remoteReply,
                   given, sysLocale, middleware, executeResult, used>>

\* login --remove: remove the session file (result ignored) and return
LoginRemove ==
    /\ Running /\ pc = "dispatch"
    /\ cli.command.name = "Login" /\ cli.command.remove
    /\ \E removed \in BOOLEAN :
          sessionFile' =
              IF sessionFile.path /\ sessionFile.exists /\ removed
              THEN [path |-> TRUE, exists |-> FALSE, readable |-> FALSE,
                    content |-> <<>>]
              ELSE sessionFile
    /\ pc' = "end"
    /\ exit' = "0"
    /\ UNCHANGED <<cli, tempDir, logLevel, errorLog, stderrLines, warned, preCheck,
                   clients, limiters, locale, authState, attempt, sessionRead,
                   loginCalls, sessionErr, ctx, handlerInstalls, executeCalls,
                   cursorVisible, handlerVars,
                   remoteReply,
                   given, sysLocale, middleware, executeResult, used>>

\* mutant: the failed pre-check is logged but the process does not exit
PreCheckContinue ==
    /\ Running /\ pc = "pre_check"
    /\ \E ok \in BOOLEAN :
          IF ok THEN /\ preCheck' = "ok"
                     /\ pc' = "create_ctx"
                     /\ UNCHANGED <<errorLog, exit>>
                ELSE /\ preCheck' = "err"
                     /\ errorLog' = Append(errorLog,
                            [src |-> "pre_check", err |-> Err("Misconfiguration")])
                     /\ pc' = "create_ctx"
                     /\ exit' = exit
    /\ UNCHANGED <<cfgVars, tempDir, logLevel, stderrLines, warned, clients,
                   limiters, locale, authState, attempt, sessionRead, loginCalls,
                   sessionErr, ctx, handlerInstalls, executeCalls, cursorVisible,
                   handlerVars,
                   remoteReply,
                   sysLocale, middleware, executeResult, used>>

\* pre_check_executor: the command's pre_check succeeds or fails
PreCheck ==
    /\ Running /\ pc = "pre_check"
    /\ \E ok \in BOOLEAN :
          IF ok THEN /\ preCheck' = "ok"
                     /\ pc' = "create_ctx"
                     /\ UNCHANGED <<errorLog, exit>>
                ELSE /\ preCheck' = "err"
                     /\ LogAndExit("pre_check", Err("Misconfiguration"))
    /\ UNCHANGED <<cfgVars, tempDir, logLevel, stderrLines, warned, clients,
                   limiters, locale, authState, attempt, sessionRead, loginCalls,
                   sessionErr, ctx, handlerInstalls, executeCalls, cursorVisible,
                   handlerVars,
                   remoteReply,
                   sysLocale, middleware, executeResult, used>>

\* RateLimiterService::new(l, client) when a speed limit is set
LimiterFor(c, client) ==
    IF c.speed_limit.some THEN {[client |-> client, limit |-> c.speed_limit.val]}
    ELSE {}

\* create_ctx: both reqwest clients (builder.build().unwrap() may panic) and
\* the rate limiter handed to crunchyroll_session
BuildClients ==
    /\ Running /\ pc = "create_ctx"
    /\ \E ok \in BOOLEAN :
          IF ok THEN /\ clients' = {"api", "transfer"}
                     /\ limiters' = LimiterFor(cli, "api")
                     /\ pc' = "locale"
                     /\ exit' = exit
                ELSE /\ UNCHANGED <<clients, limiters>>
                     /\ pc' = "end"
                     /\ exit' = "panic"
    /\ UNCHANGED <<cfgVars, tempDir, logLevel, errorLog, stderrLines, warned,
                   preCheck, locale, authState, attempt, sessionRead, loginCalls,
                   sessionErr, ctx, handlerInstalls, executeCalls, cursorVisible,
                   handlerVars,
                   remoteReply,
                   sysLocale, middleware, executeResult, used>>

\* -------------------------------------------------- crunchyroll_session
\* mutant: the supported_langs test on --lang is missing
ResolveLocaleNoCheck ==
    /\ Running /\ pc = "locale"
    /\ IF cli.lang # None
       THEN IF FALSE
            THEN /\ SessionFail(ErrWith("UnsupportedLang", SupportedLangsVec))
                 /\ UNCHANGED <<locale, warned, sysLocale, middleware>>
            ELSE /\ locale' = cli.lang
                 /\ middleware' = limiters
                 /\ pc' = "select"
                 /\ UNCHANGED <<warned, sysLocale, authState, sessionErr,
                                errorLog, exit>>
       ELSE \E sys \in SystemLocales :
              /\ sysLocale' = sys
              /\ locale' = IF sys \in SupportedLangs THEN sys ELSE "en-US"
              /\ warned' = (sys \notin SupportedLangs)
              /\ middleware' = limiters
              /\ pc' = "select"
              /\ UNCHANGED <<authState, sessionErr, errorLog, exit>>
    /\ UNCHANGED <<cfgVars, tempDir, logLevel, stderrLines, preCheck, clients,
                   limiters, attempt, sessionRead, loginCalls, ctx,
                   handlerInstalls, executeCalls, cursorVisible, handlerVars,
                   remoteReply,
                   executeResult, used>>

\* mutant: a supported system locale wins over --lang
ResolveLocaleSystemFirst ==
    /\ Running /\ pc = "locale"
    /\ IF cli.lang # None
       THEN IF cli.lang \notin SupportedLangs
            THEN /\ SessionFail(ErrWith("UnsupportedLang", SupportedLangsVec))
                 /\ UNCHANGED <<locale, warned, sysLocale, middleware>>
            ELSE \E sys \in SystemLocales :
                   /\ sysLocale' = sys
                   /\ locale' = IF sys \in SupportedLangs THEN sys ELSE cli.lang
                   /\ middleware' = limiters
                   /\ pc' = "select"
                   /\ UNCHANGED <<warned, authState, sessionErr, errorLog, exit>>
       ELSE \E sys \in SystemLocales :
              /\ sysLocale' = sys
              /\ locale' = IF sys \in SupportedLangs THEN sys ELSE "en-US"
              /\ warned' = (sys \notin SupportedLangs)
              /\ middleware' = limiters
              /\ pc' = "select"
              /\ UNCHANGED <<authState, sessionErr, errorLog, exit>>
    /\ UNCHANGED <<cfgVars, tempDir, logLevel, stderrLines, preCheck, clients,
                   limiters, attempt, sessionRead, loginCalls, ctx,
                   handlerInstalls, executeCalls, cursorVisible, handlerVars,
                   remoteReply,
                   executeResult, used>>

\* the locale block: explicit --lang must be supported; otherwise the system
\* locale, replaced by en-US (with a warning) when it is not supported
ResolveLocale ==
    /\ Running /\ pc = "locale"
    /\ IF cli.lang # None
       THEN IF cli.lang \notin SupportedLangs
            THEN /\ SessionFail(ErrWith("UnsupportedLang", SupportedLangsVec))
                 /\ UNCHANGED <<locale, warned, sysLocale, middleware>>
            ELSE /\ locale' = cli.lang
                 /\ middleware' = limiters
                 /\ pc' = "select"
                 /\ UNCHANGED <<warned, sysLocale, authState, sessionErr,
                                errorLog, exit>>
       ELSE \E sys \in SystemLocales :
              /\ sysLocale' = sys
              /\ locale' = IF sys \in SupportedLangs THEN sys ELSE "en-US"
              /\ warned' = (sys \notin SupportedLangs)
              /\ middleware' = limiters
              /\ pc' = "select"
              /\ UNCHANGED <<authState, sessionErr, errorLog, exit>>
    /\ UNCHANGED <<cfgVars, tempDir, logLevel, stderrLines, preCheck, clients,
                   limiters, attempt, sessionRead, loginCalls, ctx,
                   handlerInstalls, executeCalls, cursorVisible, handlerVars,
                   remoteReply,
                   executeResult, used>>

\* mutant: without credentials the stored session is tried, the anonymous
\* flag only matters for the count
MethodBranchStoredFirst(c) ==
    IF LoginMethodsCount(c) > 1 THEN "too_many"
    ELSE IF c.credentials.some THEN "credentials"
    ELSE "stored"

\* which branch the count of explicit login methods selects
MethodBranch(c) ==
    IF LoginMethodsCount(c) = 0 THEN "stored"
    ELSE IF LoginMethodsCount(c) > 1 THEN "too_many"
    ELSE IF c.credentials.some THEN "credentials"
    ELSE IF c.anonymous THEN "anonymous"
    ELSE "never"

AttemptState(b) ==
    IF b = "stored" THEN "StoredSessionAttempt"
    ELSE IF b = "credentials" THEN "CredentialsAttempt"
    ELSE "AnonymousAttempt"

\* root_login_methods_count and the branch on it
SelectMethod ==
    /\ Running /\ pc = "select"
    /\ LET b == MethodBranch(cli) IN
         IF b = "too_many"
         THEN /\ SessionFail(Err("OnlyOneLoginMethod"))
              /\ UNCHANGED attempt
         ELSE IF b = "never"
         THEN /\ SessionFail(Err("ShouldNeverHappen"))
              /\ UNCHANGED attempt
         ELSE /\ attempt' = b
              /\ authState' = AttemptState(b)
              /\ pc' = b
              /\ UNCHANGED <<sessionErr, errorLog, exit>>
    /\ UNCHANGED <<cfgVars, tempDir, logLevel, stderrLines, warned, preCheck,
                   clients, limiters, locale, sessionRead, loginCalls, ctx,
                   handlerInstalls, executeCalls, cursorVisible, handlerVars,
                   remoteReply,
                   sysLocale, middleware, executeResult, used>>

\* mutant: the exists() test is missing, so a missing file is read
StoredOutcomeNoExistsCheck(f) ==
    IF ~f.path
    THEN [act |-> "fail", read |-> FALSE, token |-> <<>>, err |-> Err("UseLoginMethod")]
    ELSE IF ~(f.exists /\ f.readable)
    THEN [act |-> "fail", read |-> TRUE, token |-> <<>>, err |-> Err("Io")]
    ELSE LET sp == SplitOnce(f.content) IN
         IF sp.found /\ sp.left = <<"refresh_token">>
         THEN [act |-> "login", read |-> TRUE, token |-> sp.right, err |-> NoErr]
         ELSE IF sp.found /\ sp.left = <<"etp_rt">>
         THEN [act |-> "fail", read |-> TRUE, token |-> <<>>,
               err |-> Err("LegacyEtpRt")]
         ELSE [act |-> "fail", read |-> TRUE, token |-> <<>>,
               err |-> ErrWith("CouldNotReadSession", f.content)]

\* mutant: an etp_rt session is used for a login call like a refresh token
StoredOutcomeEtpRtLogin(f) ==
    IF ~(f.path /\ f.exists)
    THEN [act |-> "fail", read |-> FALSE, token |-> <<>>, err |-> Err("UseLoginMethod")]
    ELSE IF ~f.readable
    THEN [act |-> "fail", read |-> TRUE, token |-> <<>>, err |-> Err("Io")]
    ELSE LET sp == SplitOnce(f.content) IN
         IF sp.found /\ sp.left \in {<<"refresh_token">>, <<"etp_rt">>}
         THEN [act |-> "login", read |-> TRUE, token |-> sp.right, err |-> NoErr]
         ELSE [act |-> "fail", read |-> TRUE, token |-> <<>>,
               err |-> ErrWith("CouldNotReadSession", f.content)]

\* mutant: the bail after the match is missing, so an unreadable session
\* falls through to the "use a login method" error
StoredOutcomeFallThrough(f) ==
    IF ~(f.path /\ f.exists)
    THEN [act |-> "fail", read |-> FALSE, token |-> <<>>, err |-> Err("UseLoginMethod")]
    ELSE IF ~f.readable
    THEN [act |-> "fail", read |-> TRUE, token |-> <<>>, err |-> Err("Io")]
    ELSE LET sp == SplitOnce(f.content) IN
         IF sp.found /\ sp.left = <<"refresh_token">>
         THEN [act |-> "login", read |-> TRUE, token |-> sp.right, err |-> NoErr]
         ELSE IF sp.found /\ sp.left = <<"etp_rt">>
         THEN [act |-> "fail", read |-> TRUE, token |-> <<>>,
               err |-> Err("LegacyEtpRt")]
         ELSE [act |-> "fail", read |-> TRUE, token |-> <<>>,
               err |-> Err("UseLoginMethod")]

\* What the count == 0 branch does with the session file:
\* act = "login" issues login_with_refresh_token(token), act = "fail" bails
StoredOutcome(f) ==
    IF ~(f.path /\ f.exists)
    THEN [act |-> "fail", read |-> FALSE, token |-> <<>>, err |-> Err("UseLoginMethod")]
    ELSE IF ~f.readable
    THEN [act |-> "fail", read |-> TRUE, token |-> <<>>, err |-> Err("Io")]
    ELSE LET sp == SplitOnce(f.content) IN
         IF sp.found /\ sp.left = <<"refresh_token">>
         THEN [act |-> "login", read |-> TRUE, token |-> sp.right, err |-> NoErr]
         ELSE IF sp.found /\ sp.left = <<"etp_rt">>
         THEN [act |-> "fail", read |-> TRUE, token |-> <<>>,
               err |-> Err("LegacyEtpRt")]
         ELSE [act |-> "fail", read |-> TRUE, token |-> <<>>,
               err |-> ErrWith("CouldNotReadSession", f.content)]

StoredSessionAttempt ==
    /\ Running /\ pc = "stored"
    /\ LET o == StoredOutcome(sessionFile) IN
         /\ sessionRead' = o.read
         /\ IF o.act = "login"
            THEN /\ loginCalls' = Append(loginCalls,
                        [method |-> "refresh_token", a |-> o.token, b |-> <<>>])
                 /\ pc' = "login"
                 /\ UNCHANGED <<authState, sessionErr, errorLog, exit>>
            ELSE /\ SessionFail(o.err)
                 /\ UNCHANGED loginCalls
    /\ UNCHANGED <<cfgVars, tempDir, logLevel, stderrLines, warned, preCheck,
                   clients, limiters, locale, attempt, ctx, handlerInstalls,
                   executeCalls, cursorVisible, handlerVars,
                   remoteReply,
                   sysLocale, middleware, executeResult, used>>

\* mutant: rsplit_once, the split at the LAST separator
CredentialsOutcomeLast(c) ==
    IF SepPositions(c) = {}
    THEN [act |-> "fail", email |-> <<>>, password |-> <<>>]
    ELSE LET i == CHOOSE x \in SepPositions(c) : \A y \in SepPositions(c) : y <= x
         IN  [act |-> "login", email |-> SubSeq(c, 1, i - 1),
              password |-> SubSeq(c, i + 1, Len(c))]

\* What the credentials branch does with the credentials string
CredentialsOutcome(c) ==
    LET sp == SplitOnce(c) IN
    IF sp.found
    THEN [act |-> "login", email |-> sp.left, password |-> sp.right]
    ELSE [act |-> "fail", email |-> <<>>, password |-> <<>>]

CredentialsAttempt ==
    /\ Running /\ pc = "credentials"
    /\ LET o == CredentialsOutcome(cli.credentials.val) IN
         IF o.act = "login"
         THEN /\ loginCalls' = Append(loginCalls,
                     [method |-> "credentials", a |-> o.email, b |-> o.password])
              /\ pc' = "login"
              /\ UNCHANGED <<authState, sessionErr, errorLog, exit>>
         ELSE /\ SessionFail(Err("InvalidCredentialsFormat"))
              /\ UNCHANGED loginCalls
    /\ UNCHANGED <<cfgVars, tempDir, logLevel, stderrLines, warned, preCheck,
                   clients, limiters, locale, attempt, sessionRead, ctx,
                   handlerInstalls, executeCalls, cursorVisible, handlerVars,
                   remoteReply,
                   sysLocale, middleware, executeResult, used>>

AnonymousAttempt ==
    /\ Running /\ pc = "anonymous"
    /\ loginCalls' = Append(loginCalls, [method |-> "anonymous", a |-> <<>>, b |-> <<>>])
    /\ pc' = "login"
    /\ UNCHANGED <<cfgVars, tempDir, exit, logLevel, errorLog, stderrLines, warned,
                   preCheck, clients, limiters, locale, authState, attempt,
                   sessionRead, sessionErr, ctx, handlerInstalls, executeCalls,
                   cursorVisible, handlerVars,
                   remoteReply,
                   sysLocale, middleware, executeResult, used>>

\* mutant: the invalid_grant test is missing
RefreshLoginErrorRaw(e) == RemoteErr(e)

\* the error a failed login_with_refresh_token is turned into
RefreshLoginError(e) ==
    IF e.kind = "Request" /\ StartsWith(e.message, "invalid_grant")
    THEN Err("StoredLoginExpired")
    ELSE RemoteErr(e)

\* the error crunchyroll_session returns when the login call fails with e
LoginError(a, e) == IF a = "stored" THEN RefreshLoginError(e) ELSE RemoteErr(e)

\* the remote answers the login call
LoginOk ==
    /\ Running /\ pc = "login"
    /\ remoteReply' = [kind |-> "Ok", message |-> <<>>]
    /\ authState' = "Authenticated"
    /\ pc' = "assemble"
    /\ UNCHANGED <<cfgVars, tempDir, exit, logLevel, errorLog, stderrLines, warned,
                   preCheck, clients, limiters, locale, attempt, sessionRead,
                   loginCalls, sessionErr, ctx, handlerInstalls, executeCalls,
                   cursorVisible, handlerVars,
                   sysLocale, middleware, executeResult, used>>

\* mutant: a failed login call is repeated once before the error is returned
LoginErrRetry ==
    /\ Running /\ pc = "login"
    /\ \E e \in RemoteErrors :
          /\ remoteReply' = e
          /\ IF Len(loginCalls) < 2
             THEN /\ pc' = attempt
                  /\ UNCHANGED <<authState, sessionErr, errorLog, exit>>
             ELSE SessionFail(LoginError(attempt, e))
    /\ UNCHANGED <<cfgVars, tempDir, logLevel, stderrLines, warned, preCheck,
                   clients, limiters, locale, attempt, sessionRead, loginCalls, ctx,
                   handlerInstalls, executeCalls, cursorVisible, handlerVars,
                   sysLocale, middleware, executeResult, used>>

\* a login call fails: crunchyroll_session returns the error
LoginErr ==
    /\ Running /\ pc = "login"
    /\ \E e \in RemoteErrors :
          /\ remoteReply' = e
          /\ SessionFail(LoginError(attempt, e))
    /\ UNCHANGED <<cfgVars, tempDir, logLevel, stderrLines, warned, preCheck,
                   clients, limiters, locale, attempt, sessionRead, loginCalls, ctx,
                   handlerInstalls, executeCalls, cursorVisible, handlerVars,
                   sysLocale, middleware, executeResult, used>>

\* mutant: the context gets a clone of the limiter handed to the session
AssembleCtxSharedLimiter ==
    /\ Running /\ pc = "assemble"
    /\ ctx' = [built |-> TRUE, owner |-> "main", crunchy |-> locale,
               client |-> "transfer", rate_limiter |-> middleware]
    /\ limiters' = limiters
    /\ pc' = "set_handler"
    /\ UNCHANGED <<cfgVars, tempDir, exit, logLevel, errorLog, stderrLines, warned,
                   preCheck, clients, locale, authState, attempt, sessionRead,
                   loginCalls, sessionErr, handlerInstalls, executeCalls,
                   cursorVisible, handlerVars,
                   remoteReply,
                   sysLocale, middleware, executeResult, used>>

\* create_ctx returns Ok(Context { crunchy, client, rate_limiter })
AssembleCtx ==
    /\ Running /\ pc = "assemble"
    /\ ctx' = [built |-> TRUE, owner |-> "main", crunchy |-> locale,
               client |-> "transfer", rate_limiter |-> LimiterFor(cli, "transfer")]
    /\ limiters' = limiters \cup LimiterFor(cli, "transfer")
    /\ pc' = "set_handler"
    /\ UNCHANGED <<cfgVars, tempDir, exit, logLevel, errorLog, stderrLines, warned,
                   preCheck, clients, locale, authState, attempt, sessionRead,
                   loginCalls, sessionErr, handlerInstalls, executeCalls,
                   cursorVisible, handlerVars,
                   remoteReply,
                   sysLocale, middleware, executeResult, used>>

\* -------------------------------------------------- handler and execute
\* mutant: the result of set_handler is ignored instead of unwrapped
SetHandlerIgnoreErr ==
    /\ Running /\ pc = "set_handler"
    /\ \E ok \in BOOLEAN :
          IF ok THEN /\ handlerInstalls' = handlerInstalls + 1
                     /\ pc' = "execute"
                     /\ exit' = exit
                ELSE /\ UNCHANGED handlerInstalls
                     /\ pc' = "execute"
                     /\ exit' = exit
    /\ UNCHANGED <<cfgVars, tempDir, logLevel, errorLog, stderrLines, warned,
                   preCheck, clients, limiters, locale, authState, attempt,
                   sessionRead, loginCalls, sessionErr, ctx, executeCalls,
                   cursorVisible, handlerVars,
                   remoteReply,
                   sysLocale, middleware, executeResult, used>>

\* ctrlc::set_handler(..).unwrap(): a failed installation panics
SetHandler ==
    /\ Running /\ pc = "set_handler"
    /\ \E ok \in BOOLEAN :
          IF ok THEN /\ handlerInstalls' = handlerInstalls + 1
                     /\ pc' = "execute"
                     /\ exit' = exit
                ELSE /\ UNCHANGED handlerInstalls
                     /\ pc' = "end"
                     /\ exit' = "panic"
    /\ UNCHANGED <<cfgVars, tempDir, logLevel, errorLog, stderrLines, warned,
                   preCheck, clients, limiters, locale, authState, attempt,
                   sessionRead, loginCalls, sessionErr, ctx, executeCalls,
                   cursorVisible, handlerVars,
                   remoteReply,
                   sysLocale, middleware, executeResult, used>>

\* match cli.command: execute_executor(command, ctx) takes the context
ExecuteStart ==
    /\ Running /\ pc = "execute"
    /\ executeCalls' = executeCalls + 1
    /\ ctx' = [ctx EXCEPT !.owner = "command"]
    /\ pc' = "executing"
    /\ UNCHANGED <<cfgVars, tempDir, exit, logLevel, errorLog, stderrLines, warned,
                   preCheck, clients, limiters, locale, authState, attempt,
                   sessionRead, loginCalls, sessionErr, handlerInstalls,
                   cursorVisible, handlerVars,
                   remoteReply,
                   sysLocale, middleware, executeResult, used>>

\* an interactive prompt of the running command hides the cursor while it
\* is shown and shows it again when it is answered
ExecutePrompt ==
    /\ Running /\ pc = "executing"
    /\ cursorVisible' = ~cursorVisible
    /\ UNCHANGED <<cfgVars, tempDir, exit, mainVars, handlerVars>>

\* the limiters a request through client cl passes: the session's
\* middleware for the API client, the context's limiter for the transfer
\* client
LimitersOf(cl) == IF cl = "api" THEN middleware ELSE ctx.rate_limiter

\* a limiter with no budget left in the current second holds requests back
Throttled(cl) == \E l \in LimitersOf(cl) : used[l.client] >= l.limit

\* the running command sends one unit of traffic through a limited client:
\* it is charged to the budget of every limiter instance on its way
LimitedRequest ==
    /\ Running /\ pc = "executing"
    /\ \E cl \in clients :
          /\ LimitersOf(cl) # {}
          /\ ~Throttled(cl)
          /\ used' = [b \in DOMAIN used |->
                        IF \E l \in LimitersOf(cl) : l.client = b
                        THEN used[b] + 1 ELSE used[b]]
    /\ UNCHANGED <<cfgVars, tempDir, exit, pc, logLevel, errorLog, stderrLines,
                   warned, preCheck, clients, limiters, locale, authState, attempt,
                   sessionRead, loginCalls, remoteReply, sessionErr, ctx,
                   handlerInstalls, executeCalls, cursorVisible, handlerVars,
                   sysLocale, middleware, executeResult>>

\* a new second begins: every limiter has its whole budget again
LimiterWindow ==
    /\ Running /\ pc = "executing"
    /\ \E b \in DOMAIN used : used[b] > 0
    /\ used' = [b \in DOMAIN used |-> 0]
    /\ UNCHANGED <<cfgVars, tempDir, exit, pc, logLevel, errorLog, stderrLines,
                   warned, preCheck, clients, limiters, locale, authState, attempt,
                   sessionRead, loginCalls, remoteReply, sessionErr, ctx,
                   handlerInstalls, executeCalls, cursorVisible, handlerVars,
                   sysLocale, middleware, executeResult>>

\* errors a command's execute can return: a crunchyroll_rs Error or another
ExecuteErrors == {RemoteErr(e) : e \in RemoteErrors} \cup {Err("Other")}

\* mutant: the message of every crunchyroll error is replaced
TranslateErrorAll(e) ==
    IF e.kind = "Remote"
    THEN RemoteErr([kind |-> e.remote.kind, message |-> <<"mitigation">>])
    ELSE e

\* execute_executor: the message of Error::Block is replaced
TranslateError(e) ==
    IF e.kind = "Remote" /\ e.remote.kind = "Block"
    THEN RemoteErr([kind |-> "Block", message |-> <<"mitigation">>])
    ELSE e

\* execute returned Ok: execute_executor and main return
ExecuteOk ==
    /\ Running /\ pc = "executing"
    /\ executeResult' = Err("Ok")
    /\ pc' = "end"
    /\ exit' = "0"
    /\ UNCHANGED <<cfgVars, tempDir, logLevel, errorLog, stderrLines, warned,
                   preCheck, clients, limiters, locale, authState, attempt,
                   sessionRead, loginCalls, sessionErr, ctx, handlerInstalls,
                   executeCalls, cursorVisible, handlerVars,
                   remoteReply,
                   sysLocale, middleware, used>>

\* execute returned Err: translate, log, exit(1)
ExecuteErr ==
    /\ Running /\ pc = "executing"
    /\ \E e \in ExecuteErrors :
          /\ executeResult' = e
          /\ LogAndExit("execute", TranslateError(e))
    /\ UNCHANGED <<cfgVars, tempDir, logLevel, stderrLines, warned, preCheck,
                   clients, limiters, locale, authState, attempt, sessionRead,
                   loginCalls, sessionErr, ctx, handlerInstalls, executeCalls,
                   cursorVisible, handlerVars,
                   remoteReply,
                   sysLocale, middleware, used>>

\* -------------------------------------------------- interrupts
\* an interrupt before set_handler ran: the default disposition ends the
\* process, nothing of the program runs
InterruptDefault ==
    /\ Running /\ pc # "end"
    /\ handlerInstalls = 0
    /\ interrupt' = "default"
    /\ tempAtInt' = tempDir
    /\ exit' = "sigint"
    /\ UNCHANGED <<cfgVars, tempDir, mainVars, cursorVisible, hpc,
                   todo, visited,
                   cursorShown, readDir>>

\* the closure starts: fs::read_dir(env::temp_dir()); on Err the loop is
\* skipped
HandlerStart ==
    /\ Running /\ pc # "end"
    /\ handlerInstalls > 0
    /\ hpc = "idle"
    /\ interrupt' = "handled"
    /\ tempAtInt' = tempDir
    /\ \E ok \in BOOLEAN :
          /\ readDir' = IF ok THEN "ok" ELSE "err"
          /\ todo' = IF ok THEN tempDir ELSE {}
    /\ hpc' = "loop"
    /\ UNCHANGED <<cfgVars, tempDir, exit, mainVars, cursorVisible, visited,
                   cursorShown>>

\* mutant: contains instead of starts_with
MatchesContains(e) ==
    e.utf8 /\ \E i \in 1..Len(e.name) : e.name[i] = ".crunchy-cli_"

\* the name the starts_with test sees: to_str().unwrap_or_default()
NameSeen(e) == IF e.utf8 THEN e.name ELSE <<>>

\* the starts_with(".crunchy-cli_") test
Matches(e) == StartsWith(NameSeen(e), ".crunchy-cli_")

\* One iteration of the loop over dir.flatten().
\*   itemOk: the iterator yielded Ok for this entry (flatten drops Err)
\*   ftOk:   file.file_type() succeeded (on Err the entry is taken as a file)
\*   rmOk:   the removal call itself succeeded
\* remove_file on a directory fails.
EntryResult(e, itemOk, ftOk, rmOk) ==
    IF ~itemOk THEN "dropped"
    ELSE IF ~Matches(e) THEN "unmatched"
    ELSE LET asFile == (~ftOk) \/ e.kind = "file" IN
         IF asFile /\ e.kind # "file" THEN "failed"
         ELSE IF rmOk THEN "removed" ELSE "failed"

\* mutant: a failed removal ends the loop
HandlerEntryBreak ==
    /\ Running
    /\ hpc = "loop"
    /\ \E e \in todo : \E itemOk, ftOk, rmOk \in BOOLEAN :
          LET r == EntryResult(e, itemOk, ftOk, rmOk) IN
            /\ todo' = IF r = "failed" THEN {} ELSE todo \ {e}
            /\ visited' = visited \cup {[entry |-> e, result |-> r]}
            /\ tempDir' = IF r = "removed" THEN tempDir \ {e} ELSE tempDir
    /\ UNCHANGED <<cfgVars, exit, mainVars, cursorVisible, interrupt, hpc,
                   tempAtInt,
                   cursorShown, readDir>>

HandlerEntry ==
    /\ Running
    /\ hpc = "loop"
    /\ \E e \in todo : \E itemOk, ftOk, rmOk \in BOOLEAN :
          LET r == EntryResult(e, itemOk, ftOk, rmOk) IN
            /\ todo' = todo \ {e}
            /\ visited' = visited \cup {[entry |-> e, result |-> r]}
            /\ tempDir' = IF r = "removed" THEN tempDir \ {e} ELSE tempDir
    /\ UNCHANGED <<cfgVars, exit, mainVars, cursorVisible, interrupt, hpc,
                   tempAtInt,
                   cursorShown, readDir>>

\* let _ = Term::stdout().show_cursor()
HandlerShowCursor ==
    /\ Running
    /\ hpc = "loop" /\ todo = {}
    /\ cursorVisible' = TRUE
    /\ cursorShown' = TRUE
    /\ hpc' = "exit"
    /\ UNCHANGED <<cfgVars, tempDir, exit, mainVars, interrupt, tempAtInt, todo,
                   visited, readDir>>

\* std::process::exit(1) at the end of the closure
HandlerExit ==
    /\ Running
    /\ hpc = "exit"
    /\ exit' = "1"
    /\ hpc' = "done"
    /\ UNCHANGED <<cfgVars, tempDir, mainVars, cursorVisible, interrupt,
                   tempAtInt, todo, visited,
                   cursorShown, readDir>>

\* -------------------------------------------------- specification
CredTexts == {NoText} \cup {SomeText(t) : t \in StrUpTo(CredAlphabet, MaxCredLen)}

\* Configurations.  Every flag is varied against a few credentials strings
\* and session files; all credentials strings and all session files are
\* varied against every language, login method, command and quiet setting.
FewSessionFiles ==
    {[path |-> TRUE, exists |-> FALSE, readable |-> FALSE, content |-> <<>>]} \cup
    {[path |-> TRUE, exists |-> TRUE, readable |-> TRUE, content |-> c] :
        c \in {<<"refresh_token", ":">>, <<"etp_rt", ":">>, <<"x">>}}

FewCredTexts == {NoText, SomeText(<<"a", ":">>)}

Plain(c) == ~c.verbose /\ ~c.speed_limit.some

Configs ==
    (Clis(FewCredTexts) \X FewSessionFiles) \cup
    ({c \in Clis(CredTexts) : Plain(c)} \X FewSessionFiles) \cup
    ({c \in Clis(FewCredTexts) : Plain(c)} \X SessionFiles(MaxSessLen))

Init ==
    /\ \E c \in Configs : cli = c[1] /\ sessionFile = c[2]
    /\ tempDir = {e \in TempEntries : e.kind = "file" /\ Matches(e)}
    /\ InitRun

\* Interrupt handling: every temp directory, a few configurations
IntClis ==
    {c \in Clis(FewCredTexts) :
        /\ c.lang = None
        /\ c.verbose = c.quiet
        /\ c.command \in {[name |-> "Archive", yes |-> FALSE, remove |-> FALSE],
                          [name |-> "Login", yes |-> FALSE, remove |-> TRUE]}}

InitInt ==
    /\ cli \in IntClis
    /\ sessionFile \in {f \in FewSessionFiles :
                           f.exists => f.content = <<"refresh_token", ":">>}
    /\ tempDir \in SUBSET TempEntries
    /\ InitRun

Next ==
    \/ VerbosityConflict
    \/ InitLogger
    \/ Dispatch
    \/ LoginRemove
    \/ PreCheck
    \/ BuildClients
    \/ ResolveLocale
    \/ SelectMethod
    \/ StoredSessionAttempt
    \/ CredentialsAttempt
    \/ AnonymousAttempt
    \/ LoginOk
    \/ LoginErr
    \/ AssembleCtx
    \/ SetHandler
    \/ ExecuteStart
    \/ ExecutePrompt
    \/ LimitedRequest
    \/ LimiterWindow
    \/ ExecuteOk
    \/ ExecuteErr
    \/ InterruptDefault
    \/ HandlerStart
    \/ HandlerEntry
    \/ HandlerShowCursor
    \/ HandlerExit

Spec == Init /\ [][Next]_vars

SpecInt == InitInt /\ [][Next]_vars

\* The ctrl-c handler runs on its own thread, which the scheduler keeps
\* running: a handler step that stays possible is eventually taken.
SpecIntFair ==
    /\ SpecInt
    /\ WF_vars(HandlerEntry)
    /\ WF_vars(HandlerShowCursor)
    /\ WF_vars(HandlerExit)

\* ================================================================ claims
HasBothMethods == cli.credentials.some /\ cli.anonymous
HasNoMethod == ~cli.credentials.some /\ ~cli.anonymous
LangAccepted == cli.lang = None \/ cli.lang \in SupportedLangs
\* main logged e as the error of create_ctx and exited with status 1
FailedWith(e) ==
    /\ authState = "Failed"
    /\ sessionErr = e
    /\ errorLog = <<[src |-> "create_ctx", err |-> e]>>
    /\ exit = "1"

\* C1 as claimed: with both login methods set, whenever session acquisition
\* fails it fails with the "only one login method" error, whatever the
\* language override is.
C1_OnlyOneWhateverTheFlags ==
    (HasBothMethods /\ authState = "Failed")
        => sessionErr.kind = "OnlyOneLoginMethod"

\* C1 amended: with both login methods set, no login call is issued and no
\* attempt state is entered; a failure of session acquisition is the
\* unsupported-language error when the override is not supported and the
\* "only one login method" error otherwise; and once the locale is resolved
\* the primary task ends with exactly that error logged and status 1.
C1_OnlyOneAfterLocale ==
    HasBothMethods =>
        /\ loginCalls = <<>>
        /\ attempt = "none"
        /\ authState \in {"Idle", "Failed"}
        /\ authState = "Failed" =>
              FailedWith(IF LangAccepted THEN Err("OnlyOneLoginMethod")
                         ELSE ErrWith("UnsupportedLang", SupportedLangsVec))
        /\ (locale # None /\ pc \notin {"locale", "select"}) =>
              FailedWith(Err("OnlyOneLoginMethod"))

C1_Witness ==
    /\ HasBothMethods
    /\ FailedWith(Err("OnlyOneLoginMethod"))
    /\ sessionFile.exists

\* C2: with neither login method and no stored-session file (no session
\* path, or no file at it), the stored-session attempt fails with the
\* "please use a login method" error, and no login call is ever issued.
NoSessionFile == ~sessionFile.path \/ ~sessionFile.exists

C2_NoMethodNoFile ==
    (HasNoMethod /\ NoSessionFile) =>
        /\ loginCalls = <<>>
        /\ authState # "Authenticated"
        /\ ~sessionRead
        /\ (attempt = "stored" /\ pc # "stored") =>
              FailedWith(Err("UseLoginMethod"))

C2_Witness ==
    /\ HasNoMethod /\ NoSessionFile
    /\ attempt = "stored"
    /\ FailedWith(Err("UseLoginMethod"))

\* the file was read as text whose token type (the text before the first
\* separator) is the one symbol t
StoredTokenType(t) ==
    /\ sessionFile.path /\ sessionFile.exists /\ sessionFile.readable
    /\ Len(sessionFile.content) >= 2
    /\ sessionFile.content[1] = t
    /\ sessionFile.content[2] = ":"

\* C3: in the stored-session attempt a session of token type etp_rt ends in
\* Failed with the unsupported-legacy-method error, and no login call is
\* issued on that run.
C3_LegacyEtpRt ==
    (HasNoMethod /\ StoredTokenType("etp_rt")) =>
        /\ loginCalls = <<>>
        /\ authState # "Authenticated"
        /\ (attempt = "stored" /\ pc # "stored") => FailedWith(Err("LegacyEtpRt"))

C3_Witness ==
    /\ StoredTokenType("etp_rt")
    /\ attempt = "stored"
    /\ FailedWith(Err("LegacyEtpRt"))

\* the remote rejected the login as an expired/invalid grant
InvalidGrant(r) ==
    r.kind = "Request" /\ Len(r.message) >= 1 /\ r.message[1] = "invalid_grant"

\* C4: in the stored-session attempt with a refresh_token session, a login
\* rejected as an invalid grant ends in Failed with the "stored login is
\* expired" error, any other remote error is surfaced unchanged, and a
\* successful login ends in Authenticated.
C4_RefreshTokenLogin ==
    (attempt = "stored" /\ StoredTokenType("refresh_token") /\ pc # "stored") =>
        /\ loginCalls = <<[method |-> "refresh_token",
                           a |-> SubSeq(sessionFile.content, 3,
                                        Len(sessionFile.content)),
                           b |-> <<>>]>>
        /\ remoteReply.kind = "Ok" => authState = "Authenticated" /\ sessionErr = NoErr
        /\ InvalidGrant(remoteReply) => FailedWith(Err("StoredLoginExpired"))
        /\ (remoteReply.kind \notin {"none", "Ok"} /\ ~InvalidGrant(remoteReply)) =>
              FailedWith(RemoteErr(remoteReply))

C4_Witness ==
    /\ attempt = "stored"
    /\ InvalidGrant(remoteReply)
    /\ FailedWith(Err("StoredLoginExpired"))

\* the file was read as text with no separator, or with a token type that
\* is neither refresh_token nor etp_rt
StoredUnrecognised ==
    /\ sessionFile.path /\ sessionFile.exists /\ sessionFile.readable
    /\ ~StoredTokenType("refresh_token")
    /\ ~StoredTokenType("etp_rt")

\* C5: in the stored-session attempt a session file without separator or
\* with an unrecognised token type ends in Failed with the "could not read
\* stored session" error carrying the raw file content; no login call is
\* issued and no other attempt state is entered.
C5_UnreadableSession ==
    (HasNoMethod /\ StoredUnrecognised) =>
        /\ loginCalls = <<>>
        /\ authState # "Authenticated"
        /\ attempt \in {"none", "stored"}
        /\ (attempt = "stored" /\ pc # "stored") =>
              FailedWith(ErrWith("CouldNotReadSession", sessionFile.content))

C5_Witness ==
    /\ StoredUnrecognised
    /\ SepPositions(sessionFile.content) # {}
    /\ attempt = "stored"
    /\ FailedWith(ErrWith("CouldNotReadSession", sessionFile.content))

\* the credentials attempt has acted
CredentialsTried == attempt = "credentials" /\ pc # "credentials"
CredSeps == Cardinality(SepPositions(cli.credentials.val))

\* C6 as claimed: a credentials string with zero or with more than one
\* separator ends in Failed with the format error and no login call.
C6_ExactlyOneSeparator ==
    (CredentialsTried /\ CredSeps # 1) =>
        /\ loginCalls = <<>>
        /\ FailedWith(Err("InvalidCredentialsFormat"))

\* C6 amended: a credentials string with no separator ends in Failed with
\* the format error and no login call; a string with one or more separators
\* leads to one login call whose email is the text before the first
\* separator and whose password is everything after it.
C6_SplitAtFirstSeparator ==
    CredentialsTried =>
        IF CredSeps = 0
        THEN loginCalls = <<>> /\ FailedWith(Err("InvalidCredentialsFormat"))
        ELSE /\ Len(loginCalls) = 1
             /\ loginCalls[1].method = "credentials"
             /\ loginCalls[1].a \o <<":">> \o loginCalls[1].b = cli.credentials.val
             /\ SepPositions(loginCalls[1].a) = {}
             /\ sessionErr.kind # "InvalidCredentialsFormat"

C6_Witness ==
    /\ CredentialsTried
    /\ CredSeps = 2
    /\ Len(loginCalls) = 1
    /\ authState = "Authenticated"

\* the entry's file name starts with the private prefix
NameHasPrefix(e) == Len(e.name) >= 1 /\ e.name[1] = ".crunchy-cli_"
\* ... and is valid UTF-8, so that the handler can see it
HasPrefix(e) == e.utf8 /\ NameHasPrefix(e)
VisitedAs(e, results) == \E v \in visited : v.entry = e /\ v.result \in results

\* C7 as claimed: after an interrupt at any point of the run, no entry
\* whose name starts with the private prefix is left in the temp directory
\* when the process has ended.
C7_InterruptAlwaysCleans ==
    (interrupt # "none" /\ ~Running) => \A e \in tempDir : ~NameHasPrefix(e)

\* C7 amended: an interrupt before the handler is installed (pre-check,
\* client construction, authentication) ends the process with no cleanup.
\* An interrupt after installation runs the handler: it removes only entries
\* whose UTF-8 name starts with the prefix, every other entry stays, and once
\* its loop is over every prefixed entry the enumeration yielded has been
\* removed or its removal has failed, and show_cursor has been called.
C7_CleanupAfterInstall ==
    /\ interrupt = "default" =>
          /\ handlerInstalls = 0
          /\ exit = "sigint"
          /\ tempDir = tempAtInt
          /\ visited = {} /\ ~cursorShown
    /\ interrupt = "handled" =>
          /\ handlerInstalls = 1
          /\ pc \in {"execute", "executing", "end"}
          /\ tempDir \subseteq tempAtInt
          /\ \A e \in tempAtInt : ~HasPrefix(e) => e \in tempDir
          /\ \A e \in tempAtInt \ tempDir : VisitedAs(e, {"removed"})
          /\ hpc \in {"exit", "done"} =>
                /\ cursorShown
                /\ readDir = "ok" =>
                      \A e \in tempAtInt :
                          HasPrefix(e) =>
                              \/ e \notin tempDir
                              \/ VisitedAs(e, {"failed", "dropped"})

C7_Witness ==
    /\ interrupt = "handled"
    /\ hpc = "done"
    /\ exit = "1"
    /\ cursorShown
    /\ \E e \in tempAtInt : HasPrefix(e) /\ e \notin tempDir
    /\ \E e \in tempAtInt : ~HasPrefix(e) /\ NameHasPrefix(e) /\ e \in tempDir
    /\ \E e \in tempAtInt : ~NameHasPrefix(e) /\ e \in tempDir

\* C8: the handler is installed at most once, after the context has been
\* assembled; execute never starts without the handler installed, and the
\* installation precedes the start of execute.
C8_HandlerBeforeExecute ==
    /\ handlerInstalls <= 1
    /\ executeCalls > 0 => handlerInstalls = 1
    /\ pc \in {"execute", "executing"} => handlerInstalls = 1
    /\ pc = "execute" => executeCalls = 0
    /\ handlerInstalls = 1 =>
          /\ ctx.built
          /\ authState = "Authenticated"
          /\ pc \in {"execute", "executing", "end"}

C8_Witness ==
    /\ handlerInstalls = 1
    /\ executeCalls = 1
    /\ ctx.built
    /\ exit = "0"

\* every entry of the enumeration has been visited by the loop
AllVisited == {v.entry : v \in visited} = tempAtInt

\* C9 as claimed: once the handler has run, the process ends with status 1
\* with every enumerated entry processed and the cursor shown.
C9_AlwaysExitOne ==
    (interrupt = "handled" /\ ~Running) =>
        /\ exit = "1"
        /\ cursorShown
        /\ readDir = "ok" => AllVisited

\* C9 amended: a failed removal or a failed enumeration never stops the
\* handler: when its loop is over every enumerated entry has been visited,
\* show_cursor is called in every case, and the handler then exits with
\* status 1.  The process always ends once the handler started, with status
\* 1 from the handler unless the primary task ended the process while the
\* handler was still running (status 0 on a normal return of execute,
\* status 1 on its failure).
C9Inv ==
    /\ hpc \in {"exit", "done"} =>
          /\ todo = {}
          /\ cursorShown
          /\ readDir = "ok" => AllVisited
    /\ hpc = "done" => exit = "1"
    /\ (interrupt = "handled" /\ ~Running) =>
          /\ exit \in {"0", "1"}
          /\ hpc # "done" => pc = "end"

C9_BestEffortThenExit ==
    /\ []C9Inv
    /\ (interrupt = "handled") ~> (exit \in {"0", "1"})

C9_Witness ==
    /\ hpc = "done"
    /\ exit = "1"
    /\ cursorShown
    /\ \E e \in tempAtInt : VisitedAs(e, {"failed"})
    /\ \E e \in tempAtInt : VisitedAs(e, {"removed"})

\* C10: clients, limiters, locale resolution, session-file reads and login
\* calls happen only after the pre-check returned success; a failing
\* pre-check ends the run with status 1 with no client built, no login call
\* issued and no handler installed.
C10_PreCheckFirst ==
    /\ (clients # {} \/ limiters # {} \/ locale # None \/ authState # "Idle"
            \/ sessionRead \/ loginCalls # <<>> \/ handlerInstalls > 0
            \/ executeCalls > 0)
          => preCheck = "ok"
    /\ preCheck = "err" =>
          /\ exit = "1"
          /\ errorLog = <<[src |-> "pre_check", err |-> Err("Misconfiguration")]>>
          /\ clients = {} /\ limiters = {}
          /\ loginCalls = <<>>
          /\ handlerInstalls = 0

C10_Witness ==
    /\ preCheck = "err"
    /\ exit = "1"
    /\ clients = {}

\* lines a user sees as errors: error! lines and the eprintln! line
ErrorLines == Len(errorLog) + stderrLines

\* C11 as claimed: every run that ends with status 1, a handled interrupt
\* included, has emitted exactly one error line, and every run that ends
\* with status 0 has emitted none.
C11_OneErrorLinePerFailure ==
    /\ exit = "1" => ErrorLines = 1
    /\ exit = "0" => ErrorLines = 0

\* C11 amended: a run that the primary task ends with status 1 (verbosity
\* conflict, failed pre-check, failed create_ctx, failed execute) has
\* emitted exactly one error line, through eprintln! for the verbosity
\* conflict and through error! otherwise; a run that the interrupt handler
\* ends with status 1 has emitted no error line; a run that ends with
\* status 0 has emitted none.
C11_OneErrorUnlessInterrupted ==
    /\ ErrorLines <= 1
    /\ exit = "0" => ErrorLines = 0
    /\ exit = "1" => ErrorLines = (IF hpc = "done" THEN 0 ELSE 1)
    /\ stderrLines = 1 => cli.verbose /\ cli.quiet /\ logLevel = "unset"
    /\ hpc = "done" => exit = "1"

C11_Witness ==
    /\ exit = "1"
    /\ hpc = "idle"
    /\ Len(errorLog) = 1
    /\ errorLog[1].src = "execute"

\* C12: with a language override outside the supported set, session
\* acquisition fails with the unsupported-language error that lists the
\* supported codes, each once; the session file is never read, no attempt
\* state is entered and no login call is issued, whatever login methods were
\* supplied.  In every run the locale is resolved before any attempt.
C12_LocaleBeforeAttempt ==
    /\ (attempt # "none" \/ sessionRead \/ loginCalls # <<>>) => locale # None
    /\ ~LangAccepted =>
          /\ locale = None
          /\ attempt = "none"
          /\ ~sessionRead
          /\ loginCalls = <<>>
          /\ authState \in {"Idle", "Failed"}
          /\ (clients # {} /\ pc = "end") => authState = "Failed"
          /\ authState = "Failed" =>
                /\ FailedWith(ErrWith("UnsupportedLang", SupportedLangsVec))
                /\ {sessionErr.content[i] : i \in DOMAIN sessionErr.content}
                      = SupportedLangs
                /\ \A i, j \in DOMAIN sessionErr.content :
                      sessionErr.content[i] = sessionErr.content[j] => i = j

C12_Witness ==
    /\ ~LangAccepted
    /\ HasNoMethod
    /\ StoredTokenType("refresh_token")
    /\ FailedWith(ErrWith("UnsupportedLang", SupportedLangsVec))

\* C13: the session locale is the explicit override when one is given (it
\* is then supported and the system locale is not consulted); without an
\* override it is the system locale when that is supported, and en-US with
\* a warning when it is not, and session acquisition goes on to the login
\* methods in both cases.
C13_LocalePrecedence ==
    /\ locale # None =>
          IF cli.lang # None
          THEN locale = cli.lang /\ sysLocale = None /\ ~warned
          ELSE IF sysLocale \in SupportedLangs
          THEN locale = sysLocale /\ ~warned
          ELSE locale = "en-US" /\ warned
    /\ sysLocale # None => cli.lang = None /\ locale # None
    /\ cli.lang = None => sessionErr.kind # "UnsupportedLang"
    /\ (locale # None /\ pc = "end") => authState # "Idle"

C13_Witness ==
    /\ cli.lang = None
    /\ sysLocale = "ja-JP"
    /\ locale = "en-US"
    /\ warned
    /\ authState = "Authenticated"

PromptCommand == cli.command.name \in {"Archive", "Download"}

\* C14: with quiet set, the yes flag of the archive and download commands
\* is true from before the pre-check until the end of the run; without
\* quiet the flag keeps the value the user gave; nothing else of the
\* configuration is changed.
C14_QuietForcesYes ==
    /\ (cli.quiet /\ PromptCommand
           /\ (pc \notin {"start", "dispatch", "end"} \/ preCheck # "none"
                 \/ executeCalls > 0))
          => cli.command.yes
    /\ ~cli.quiet => cli = given.cli
    /\ ~PromptCommand => cli = given.cli
    /\ [cli EXCEPT !.command.yes = given.cli.command.yes] = given.cli
    /\ given.cli.command.yes => cli.command.yes

C14_Witness ==
    /\ cli.quiet
    /\ cli.command.name = "Download"
    /\ ~given.cli.command.yes
    /\ cli.command.yes
    /\ executeCalls = 1

ExecuteFailed == executeResult.kind \notin {"none", "Ok"}
IsBlock(e) == e.kind = "Remote" /\ e.remote.kind = "Block"

\* C15: when execute fails, one line is logged and the process exits with
\* status 1; for the remote "blocked" error the logged message is the
\* mitigation text, every other error is logged unchanged.
C15_BlockedIsRewritten ==
    ExecuteFailed =>
        /\ exit = "1"
        /\ Len(errorLog) = 1
        /\ errorLog[1].src = "execute"
        /\ IF IsBlock(executeResult)
           THEN errorLog[1].err =
                    RemoteErr([kind |-> "Block", message |-> <<"mitigation">>])
           ELSE errorLog[1].err = executeResult

C15_Witness ==
    /\ ExecuteFailed
    /\ IsBlock(executeResult)
    /\ executeResult.remote.message # <<"mitigation">>
    /\ errorLog[1].err.remote.message = <<"mitigation">>

RemoveMode == given.cli.command.name = "Login" /\ given.cli.command.remove
AbsentFile == [path |-> TRUE, exists |-> FALSE, readable |-> FALSE, content |-> <<>>]

\* C16: in a run of login --remove no pre-check is executed, no client or
\* limiter is built, no authentication is attempted, no handler is
\* installed and execute never runs; once the logger is initialised the
\* primary task ends with status 0 and no error line, with the session file
\* removed or, when it did not exist or the removal failed, left as it was.
C16_RemoveOnly ==
    RemoveMode =>
        /\ preCheck = "none"
        /\ clients = {} /\ limiters = {}
        /\ locale = None /\ authState = "Idle" /\ attempt = "none"
        /\ ~sessionRead /\ loginCalls = <<>>
        /\ ~ctx.built
        /\ handlerInstalls = 0 /\ executeCalls = 0
        /\ errorLog = <<>>
        /\ (pc = "end" /\ logLevel # "unset") => exit = "0"
        /\ \/ sessionFile = given.sessionFile
           \/ /\ given.sessionFile.path /\ given.sessionFile.exists
              /\ sessionFile = AbsentFile
              /\ exit = "0"

C16_Witness ==
    /\ RemoveMode
    /\ exit = "0"
    /\ given.sessionFile.exists
    /\ ~sessionFile.exists

ApiLimiter == [client |-> "api", limit |-> cli.speed_limit.val]
TransferLimiter == [client |-> "transfer", limit |-> cli.speed_limit.val]

\* C17: with a speed limit, an assembled context means exactly two limiter
\* instances: one around the API client, used by the session, and one
\* around the transfer client, held by the context; each has its own
\* budget, so traffic of one client never uses up the budget of the other.
\* Without a speed limit no limiter is built and no traffic is accounted.
C17_TwoIndependentLimiters ==
    /\ Cardinality(limiters) <= 2
    /\ \A l \in limiters : cli.speed_limit.some /\ l.limit = cli.speed_limit.val
    /\ middleware \subseteq limiters /\ ctx.rate_limiter \subseteq limiters
    /\ (cli.speed_limit.some /\ ctx.built) =>
          /\ Cardinality(limiters) = 2
          /\ middleware = {ApiLimiter}
          /\ ctx.rate_limiter = {TransferLimiter}
          /\ limiters = middleware \cup ctx.rate_limiter
          /\ middleware \cap ctx.rate_limiter = {}
          /\ Throttled("api") <=> used["api"] >= cli.speed_limit.val
          /\ Throttled("transfer") <=> used["transfer"] >= cli.speed_limit.val
    /\ ~cli.speed_limit.some =>
          /\ limiters = {} /\ middleware = {} /\ ctx.rate_limiter = {}
          /\ \A b \in DOMAIN used : used[b] = 0
          /\ ~Throttled("api") /\ ~Throttled("transfer")
    /\ \A b \in DOMAIN used :
          used[b] > 0 => cli.speed_limit.some /\ used[b] <= cli.speed_limit.val

C17_Witness ==
    /\ cli.speed_limit.some
    /\ pc = "executing"
    /\ Throttled("api")
    /\ used["transfer"] = 0
    /\ ~Throttled("transfer")

\* C18: at most one login call is issued in a run; when a step of session
\* acquisition fails the state is Failed, the error is the one logged at
\* the top level, the process exits with status 1 and no other strategy is
\* tried: the attempt state entered and the login call issued stay as they
\* were.
C18_NoRetry ==
    /\ Len(loginCalls) <= 1
    /\ \A i \in DOMAIN loginCalls :
          loginCalls[i].method =
              (IF attempt = "stored" THEN "refresh_token" ELSE attempt)
    /\ authState = "Failed" =>
          /\ pc = "end" /\ exit = "1"
          /\ errorLog = <<[src |-> "create_ctx", err |-> sessionErr]>>
          /\ remoteReply.kind # "Ok"
          /\ remoteReply # NoRemote =>
                /\ Len(loginCalls) = 1
                /\ sessionErr = LoginError(attempt, remoteReply)
    /\ remoteReply # NoRemote => Len(loginCalls) = 1
    /\ (authState = "Authenticated") <=> (remoteReply.kind = "Ok")

C18_Witness ==
    /\ authState = "Failed"
    /\ attempt = "credentials"
    /\ Len(loginCalls) = 1
    /\ remoteReply.kind = "Request"
    /\ sessionFile.exists /\ StoredTokenType("refresh_token")

\* C19: execute is called at most once, and only with the session
\* Authenticated and the assembled context handed over to the command; when
\* session acquisition fails no context is assembled, the handler is not
\* installed, execute is not called and the process exits with status 1.
C19_ExecuteOnceAfterAuth ==
    /\ executeCalls <= 1
    /\ executeCalls = 1 =>
          /\ authState = "Authenticated"
          /\ ctx.built /\ ctx.owner = "command"
          /\ ctx.crunchy = locale
          /\ handlerInstalls = 1
    /\ ctx.built => authState = "Authenticated"
    /\ (ctx.built /\ executeCalls = 0) => ctx.owner = "main"
    /\ handlerInstalls > 0 => ctx.built
    /\ authState = "Failed" =>
          /\ ~ctx.built
          /\ handlerInstalls = 0
          /\ executeCalls = 0
          /\ exit = "1"

C19_Witness ==
    /\ authState = "Failed"
    /\ remoteReply.kind = "Block"
    /\ executeCalls = 0
    /\ handlerInstalls = 0
    /\ exit = "1"

OneMethod == cli.credentials.some # cli.anonymous
ExplicitMethod == IF cli.credentials.some THEN "credentials" ELSE "anonymous"
\* the login call of the explicit method, from the command line alone
ExplicitCall ==
    IF cli.credentials.some
    THEN LET o == CredentialsOutcome(cli.credentials.val) IN
         IF o.act = "login"
         THEN <<[method |-> "credentials", a |-> o.email, b |-> o.password]>>
         ELSE <<>>
    ELSE <<[method |-> "anonymous", a |-> <<>>, b |-> <<>>]>>

\* C20: with exactly one explicit login method the session file is never
\* read; the attempt state, the login call and the result are determined by
\* the command line and the answer of the remote alone, whatever the
\* session file is; and outside login --remove the session file is never
\* written or deleted.
C20_SessionFileIgnored ==
    /\ ~RemoveMode => sessionFile = given.sessionFile
    /\ OneMethod =>
          /\ ~sessionRead
          /\ attempt \in {"none", ExplicitMethod}
          /\ loginCalls \in {<<>>, ExplicitCall}
          /\ (attempt # "none" /\ pc \notin {"credentials", "anonymous"})
                => loginCalls = ExplicitCall
          /\ authState = "Authenticated" =>
                loginCalls = ExplicitCall /\ remoteReply.kind = "Ok"
          /\ (authState = "Failed" /\ attempt # "none") =>
                sessionErr = (IF ExplicitCall = <<>>
                              THEN Err("InvalidCredentialsFormat")
                              ELSE RemoteErr(remoteReply))
          /\ (authState = "Failed" /\ attempt = "none") =>
                sessionErr = ErrWith("UnsupportedLang", SupportedLangsVec)

C20_Witness ==
    /\ OneMethod
    /\ cli.anonymous
    /\ StoredTokenType("etp_rt")
    /\ authState = "Authenticated"
    /\ loginCalls = ExplicitCall

====
